---- MODULE Spec2Model ----
(***************************************************************************)
(* Model of src/src/lib.rs: the process-wide cache CLIENTS of expiring     *)
(* reqwest clients and the one operation on it, refresh_client.            *)
(*                                                                         *)
(* Strings are sequences of bytes, so that formatting a header and         *)
(* validating a header value are computed and not assumed.  Time is the    *)
(* unix timestamp in seconds (i64 in the code; all values of the model     *)
(* are far from the i64 limits, so `now + expires_in` never overflows).    *)
(*                                                                         *)
(* auth::authenticate is "a placeholder auth implementation" that the      *)
(* crate's documentation asks to treat as a black box: its outcomes are    *)
(* the placeholder's own output and, besides, a failure or any output of   *)
(* BlackboxOutputs.  SeqSpec runs the placeholder alone, as it is written. *)
(* FairSpec runs concurrent calls under the scheduling of a fair mutex and *)
(* of authentications that complete; CancelSpec adds callers that drop the *)
(* future of refresh_client at one of its two awaits.                      *)
(*                                                                         *)
(* A caller is at "idle" (not in a call), "lock" (now sampled, awaiting    *)
(* the mutex), "auth" (mutex held, authenticate awaited) or "build" (mutex *)
(* held, res assigned).  The lookup of lines 34-38 has no await, so it is  *)
(* one step with the acquisition of the mutex.  ret is the value of the    *)
(* last return; seen is a history variable: the entry of the key as the    *)
(* call found it when it sampled now.                                      *)
(***************************************************************************)
EXTENDS Integers, Sequences, FiniteSets, TLC

\* ------------------------------------------------------------------ bounds
NumCallers == 2
MaxCalls == 3
MaxTime == 4000

\* ------------------------------------------------- constants of the source
CLIENT_ID == <<49, 98, 112, 100, 49, 57, 108, 99, 114, 51, 51, 113, 118, 103, 53, 99, 114, 51, 111, 105, 55, 57, 114, 100, 97, 112>>
POOL_ID == <<117, 115, 45, 119, 101, 115, 116, 45, 50, 95, 105, 76, 109, 73, 103, 103, 115, 105, 121>>
PlaceholderExpiresIn == 3600

\* "Bearer " and ":" as bytes
BearerPrefix == <<66, 101, 97, 114, 101, 114, 32>>
Colon == <<58>>

\* ------------------------------------------------------ inputs of the model
\* api keys: "ABC", "XY", and "Q\n" whose newline no header value accepts
KeyABC == <<65, 66, 67>>
KeyXY == <<88, 89>>
KeyBad == <<81, 10>>
Keys == {KeyABC, KeyXY, KeyBad}

\* api secrets: "shh", "psst"
SecretShh == <<115, 104, 104>>
SecretPsst == <<112, 115, 115, 116>>
Secrets == {SecretShh, SecretPsst}

\* the (api_key, api_secret) pairs callers pass
CallInputs == {<<KeyABC, SecretShh>>, <<KeyABC, SecretPsst>>, <<KeyXY, SecretShh>>, <<KeyBad, SecretShh>>}

\* tokens a black-box authentication may issue: "tok1", and "t\n"
Tok1 == <<116, 111, 107, 49>>
TokBad == <<116, 10>>
BlackboxOutputs == {<<Tok1, -1000>>, <<Tok1, 0>>, <<TokBad, 0>>}

\* amounts by which the wall clock advances in one step: of concurrent
\* runs, and of the sequential runs of the scenario (t = 0, 1000, 4000)
TickSteps == {4000}
SeqTickSteps == {1000, 3000}

Callers == 1..NumCallers

NoCaller == 0
NoStr == <<>>
\* no entry: client ids start at 1
NoEntry == [id |-> 0, expiration_time |-> 0]
NoRes == [kind |-> "none"]
NoRet == [value |-> [kind |-> "none"], auth_calls |-> 0]

VARIABLES clock, clients, lockHolder, pc, api_key, api_secret, now, res, ret, built, calls, seen

vars == <<clock, clients, lockHolder, pc, api_key, api_secret, now, res, ret, built, calls, seen>>

\* ------------------------------------------------------------ pure helpers
\* http::HeaderValue::from_str accepts a string iff every byte is valid
IsValidHeaderByte(b) == (b >= 32 /\ b # 127) \/ b = 9

HeaderValueFromStr(s) ==
    IF \A i \in 1..Len(s) : IsValidHeaderByte(s[i])
    THEN [ok |-> TRUE, value |-> s]
    ELSE [ok |-> FALSE, value |-> <<>>]

\* mutant of FormatBearer: the token alone, without the scheme
FormatBare(access_token) == access_token

\* format!("Bearer {access_token}")
FormatBearer(access_token) == BearerPrefix \o access_token

\* the placeholder: format!("{client_id}:{pool_id}:{api_key}:{password}"), 3600
authenticate(client_id, pool_id, key, password) ==
    [kind |-> "ok",
     access_token |-> client_id \o Colon \o pool_id \o Colon \o key \o Colon \o password,
     expires_in |-> PlaceholderExpiresIn]

\* what a black-box authentication may answer to a successful call
AuthOutputs(key, password) ==
    {authenticate(CLIENT_ID, POOL_ID, key, password)}
    \cup {[kind |-> "ok", access_token |-> o[1], expires_in |-> o[2]] : o \in BlackboxOutputs}

\* the entry an ExpiringClient value holds
ExpiringClient(client, expiration_time) ==
    [client |-> client, expiration_time |-> expiration_time]

\* mutant of Insert: an existing entry is kept (entry().or_insert)
InsertIfAbsent(map, k, v) ==
    [x \in (DOMAIN map) \cup {k} |-> IF x \in DOMAIN map THEN map[x] ELSE v]

\* mutant of Insert: the map is cleared before the entry is inserted
InsertAlone(map, k, v) == [x \in {k} |-> v]

\* HashMap::insert
Insert(map, k, v) ==
    [x \in (DOMAIN map) \cup {k} |-> IF x = k THEN v ELSE map[x]]

\* mutant of IsHit: no entry is ever served, every call refreshes
IsHitNever(map, k, t) == FALSE

\* mutant of IsHit: an entry is served up to and at its expiration_time
IsHitInclusive(map, k, t) == k \in DOMAIN map /\ t <= map[k].expiration_time

\* the test of lines 34-35: an entry exists and now < expiration_time
IsHit(map, k, t) == k \in DOMAIN map /\ t < map[k].expiration_time

\* mutants of ExpirationTime: the ttl alone; the ttl from the time of insertion
ExpirationTimeNoNow(t, expires_in) == expires_in
ExpirationTimeAtInsert(t, expires_in) == clock + expires_in

\* mutant of ExpirationTime: the entry is kept for twice the ttl
ExpirationTimeTwice(t, expires_in) == t + 2 * expires_in

\* now + res.expires_in()
ExpirationTime(t, expires_in) == t + expires_in

\* history: the entry of key k as a call finds it when it samples now
Snapshot(map, k) ==
    IF k \in DOMAIN map
    THEN [id |-> map[k].client.id, expiration_time |-> map[k].expiration_time]
    ELSE NoEntry

Ok(client) == [kind |-> "ok", client |-> client]
Err(msg) == [kind |-> "err", msg |-> msg]

\* ------------------------------------------------------------------- Init
Init ==
    /\ clock = 0
    /\ clients = <<>>
    /\ lockHolder = NoCaller
    /\ pc = [c \in Callers |-> "idle"]
    /\ api_key = [c \in Callers |-> NoStr]
    /\ api_secret = [c \in Callers |-> NoStr]
    /\ now = [c \in Callers |-> 0]
    /\ res = [c \in Callers |-> NoRes]
    /\ ret = NoRet
    /\ built = 0
    /\ calls = 0
    /\ seen = [c \in Callers |-> NoEntry]

\* ---------------------------------------------------------------- actions
\* the wall clock advances (it never goes back)
Advance(steps) ==
    /\ \E d \in steps :
         /\ clock + d <= MaxTime
         /\ clock' = clock + d
    /\ UNCHANGED <<clients, lockHolder, pc, api_key, api_secret, now, res, ret, built, calls, seen>>

Tick == Advance(TickSteps)

\* a caller enters refresh_client(k, s): line 31 samples now, then the caller
\* waits for the lock of line 33
Call(c, k, s) ==
    /\ pc[c] = "idle"
    /\ calls < MaxCalls
    /\ calls' = calls + 1
    /\ api_key' = [api_key EXCEPT ![c] = k]
    /\ api_secret' = [api_secret EXCEPT ![c] = s]
    /\ now' = [now EXCEPT ![c] = clock]
    /\ res' = [res EXCEPT ![c] = NoRes]
    /\ seen' = [seen EXCEPT ![c] = Snapshot(clients, k)]
    /\ pc' = [pc EXCEPT ![c] = "lock"]
    /\ UNCHANGED <<clock, clients, lockHolder, ret, built>>

\* the function returns value v, having called authenticate n times: its
\* locals and the guard are dropped
Return(c, v, n) ==
    /\ ret' = [value |-> v, auth_calls |-> n]
    /\ pc' = [pc EXCEPT ![c] = "idle"]
    /\ lockHolder' = NoCaller
    /\ api_key' = [api_key EXCEPT ![c] = NoStr]
    /\ api_secret' = [api_secret EXCEPT ![c] = NoStr]
    /\ now' = [now EXCEPT ![c] = 0]
    /\ res' = [res EXCEPT ![c] = NoRes]
    /\ seen' = [seen EXCEPT ![c] = NoEntry]

\* mutant of CacheHit: a hit renews the entry (sliding expiration)
CacheHitSliding(c) ==
    /\ pc[c] = "lock"
    /\ lockHolder = NoCaller
    /\ IsHit(clients, api_key[c], now[c])
    /\ Return(c, Ok(clients[api_key[c]].client), 0)
    /\ clients' = [clients EXCEPT ![api_key[c]].expiration_time = now[c] + PlaceholderExpiresIn]
    /\ UNCHANGED <<clock, built, calls>>

\* lines 33-38: CLIENTS.lock().await completes (the mutex is free), the
\* entry exists and now < expiration_time: a clone of its client is
\* returned and the guard is dropped
CacheHit(c) ==
    /\ pc[c] = "lock"
    /\ lockHolder = NoCaller
    /\ IsHit(clients, api_key[c], now[c])
    /\ Return(c, Ok(clients[api_key[c]].client), 0)
    /\ UNCHANGED <<clock, clients, built, calls>>

\* mutants of CacheMiss: the entry is not looked up; the lock is not exclusive
CacheMissAlways(c) ==
    /\ pc[c] = "lock"
    /\ lockHolder = NoCaller
    /\ lockHolder' = c
    /\ pc' = [pc EXCEPT ![c] = "auth"]
    /\ UNCHANGED <<clock, clients, api_key, api_secret, now, res, ret, built, calls, seen>>

CacheMissNoLock(c) ==
    /\ pc[c] = "lock"
    /\ ~IsHit(clients, api_key[c], now[c])
    /\ lockHolder' = c
    /\ pc' = [pc EXCEPT ![c] = "auth"]
    /\ UNCHANGED <<clock, clients, api_key, api_secret, now, res, ret, built, calls, seen>>

\* mutant of CacheMiss: a call with the secret "psst" is never served from
\* the cache
CacheMissBySecret(c) ==
    /\ pc[c] = "lock"
    /\ lockHolder = NoCaller
    /\ ~IsHit(clients, api_key[c], now[c]) \/ api_secret[c] = SecretPsst
    /\ lockHolder' = c
    /\ pc' = [pc EXCEPT ![c] = "auth"]
    /\ UNCHANGED <<clock, clients, api_key, api_secret, now, res, ret, built, calls, seen>>

\* lines 33-40: CLIENTS.lock().await completes, there is no entry or
\* now >= expiration_time: auth::authenticate is called and awaited with
\* the guard held
CacheMiss(c) ==
    /\ pc[c] = "lock"
    /\ lockHolder = NoCaller
    /\ ~IsHit(clients, api_key[c], now[c])
    /\ lockHolder' = c
    /\ pc' = [pc EXCEPT ![c] = "auth"]
    /\ UNCHANGED <<clock, clients, api_key, api_secret, now, res, ret, built, calls, seen>>

\* a map without its entry of key k
Remove(map, k) == [x \in (DOMAIN map) \ {k} |-> map[x]]

\* mutant of AuthFail: the stale entry was evicted before authenticating
AuthFailEvict(c) ==
    /\ pc[c] = "auth"
    /\ lockHolder = c
    /\ Return(c, Err("Authentication failed"), 1)
    /\ clients' = Remove(clients, api_key[c])
    /\ UNCHANGED <<clock, built, calls>>

\* mutant of AuthFail: a failed authentication is tried once more
AuthFailRetry(c) ==
    /\ pc[c] = "auth"
    /\ lockHolder = c
    /\ Return(c, Err("Authentication failed"), 2)
    /\ UNCHANGED <<clock, clients, built, calls>>

\* lines 40-42: authenticate answers Err: `?` returns the error
AuthFail(c) ==
    /\ pc[c] = "auth"
    /\ lockHolder = c
    /\ Return(c, Err("Authentication failed"), 1)
    /\ UNCHANGED <<clock, clients, built, calls>>

\* lines 40-44: authenticate answers Ok(res)
AuthOk(c) ==
    /\ pc[c] = "auth"
    /\ lockHolder = c
    /\ \E out \in AuthOutputs(api_key[c], api_secret[c]) :
         res' = [res EXCEPT ![c] = out]
    /\ pc' = [pc EXCEPT ![c] = "build"]
    /\ UNCHANGED <<clock, clients, lockHolder, api_key, api_secret, now, ret, built, calls, seen>>

\* the header values of lines 46-47 and 54 can both be encoded
HeadersOk(access_token, key) ==
    /\ HeaderValueFromStr(FormatBearer(access_token)).ok
    /\ HeaderValueFromStr(key).ok

\* mutant of HeaderFail: the stale entry was evicted before the refresh
HeaderFailEvict(c) ==
    /\ pc[c] = "build"
    /\ lockHolder = c
    /\ ~HeadersOk(res[c].access_token, api_key[c])
    /\ Return(c, Err("Invalid header value"), 1)
    /\ clients' = Remove(clients, api_key[c])
    /\ UNCHANGED <<clock, built, calls>>

\* lines 46-47 and 52-55: a header value cannot be encoded: `?` returns the
\* error
HeaderFail(c) ==
    /\ pc[c] = "build"
    /\ lockHolder = c
    /\ ~HeadersOk(res[c].access_token, api_key[c])
    /\ Return(c, Err("Invalid header value"), 1)
    /\ UNCHANGED <<clock, clients, built, calls>>

\* mutant of BuildFail: the error is returned with the guard still held
BuildFailKeepLock(c) ==
    /\ pc[c] = "build"
    /\ lockHolder = c
    /\ HeadersOk(res[c].access_token, api_key[c])
    /\ ret' = [value |-> Err("Failed to build client"), auth_calls |-> 1]
    /\ pc' = [pc EXCEPT ![c] = "idle"]
    /\ api_key' = [api_key EXCEPT ![c] = NoStr]
    /\ api_secret' = [api_secret EXCEPT ![c] = NoStr]
    /\ now' = [now EXCEPT ![c] = 0]
    /\ res' = [res EXCEPT ![c] = NoRes]
    /\ seen' = [seen EXCEPT ![c] = NoEntry]
    /\ UNCHANGED <<clock, clients, lockHolder, built, calls>>

\* lines 57-60: the headers are encoded but Client::builder().build() fails
BuildFail(c) ==
    /\ pc[c] = "build"
    /\ lockHolder = c
    /\ HeadersOk(res[c].access_token, api_key[c])
    /\ Return(c, Err("Failed to build client"), 1)
    /\ UNCHANGED <<clock, clients, built, calls>>

\* the client lines 50-60 build: a new transport with the two default headers
NewClient(id, access_token, key) ==
    [id |-> id,
     authorization |-> HeaderValueFromStr(FormatBearer(access_token)).value,
     x_api_key |-> HeaderValueFromStr(key).value]

\* mutant of Store: an entry that is expired at once is not stored
StoreSkipExpired(c) ==
    /\ pc[c] = "build"
    /\ lockHolder = c
    /\ HeadersOk(res[c].access_token, api_key[c])
    /\ built' = built + 1
    /\ LET client == NewClient(built + 1, res[c].access_token, api_key[c])
       IN /\ clients' = IF res[c].expires_in <= 0
                        THEN clients
                        ELSE Insert(clients, api_key[c],
                                    ExpiringClient(client, ExpirationTime(now[c], res[c].expires_in)))
          /\ Return(c, Ok(client), 1)
    /\ UNCHANGED <<clock, calls>>

\* lines 46-70: the client is built, the entry is inserted and Ok(client) is
\* returned
Store(c) ==
    /\ pc[c] = "build"
    /\ lockHolder = c
    /\ HeadersOk(res[c].access_token, api_key[c])
    /\ built' = built + 1
    /\ LET client == NewClient(built + 1, res[c].access_token, api_key[c])
       IN /\ clients' = Insert(clients, api_key[c],
                               ExpiringClient(client, ExpirationTime(now[c], res[c].expires_in)))
          /\ Return(c, Ok(client), 1)
    /\ UNCHANGED <<clock, calls>>

Next ==
    \/ Tick
    \/ \E c \in Callers, i \in CallInputs : Call(c, i[1], i[2])
    \/ \E c \in Callers : CacheHit(c)
    \/ \E c \in Callers : CacheMiss(c)
    \/ \E c \in Callers : AuthFail(c)
    \/ \E c \in Callers : AuthOk(c)
    \/ \E c \in Callers : HeaderFail(c)
    \/ \E c \in Callers : BuildFail(c)
    \/ \E c \in Callers : Store(c)

Spec == Init /\ [][Next]_vars

\* ------------------------------------------------------- sequential runs
\* calls that do not overlap, with the placeholder authenticate of lines
\* 90-100 as it is written: it always answers Ok with expires_in 3600
SeqTick == Advance(SeqTickSteps)

SeqCall(c, k, s) ==
    /\ \A d \in Callers : pc[d] = "idle"
    /\ Call(c, k, s)

SeqAuthOk(c) ==
    /\ AuthOk(c)
    /\ res'[c] = authenticate(CLIENT_ID, POOL_ID, api_key[c], api_secret[c])

SeqNext ==
    \/ SeqTick
    \/ \E c \in Callers, i \in CallInputs : SeqCall(c, i[1], i[2])
    \/ \E c \in Callers : CacheHit(c)
    \/ \E c \in Callers : CacheMiss(c)
    \/ \E c \in Callers : SeqAuthOk(c)
    \/ \E c \in Callers : HeaderFail(c)
    \/ \E c \in Callers : Store(c)

SeqSpec == Init /\ [][SeqNext]_vars

\* ------------------------------------------------------------- fair runs
\* concurrent calls, one secret per key, with an authenticate that fails or
\* answers as the placeholder does
FairInputs == {<<k, SecretShh>> : k \in Keys}

FairNext ==
    \/ Tick
    \/ \E c \in Callers, i \in FairInputs : Call(c, i[1], i[2])
    \/ \E c \in Callers : CacheHit(c)
    \/ \E c \in Callers : CacheMiss(c)
    \/ \E c \in Callers : AuthFail(c)
    \/ \E c \in Callers : SeqAuthOk(c)
    \/ \E c \in Callers : HeaderFail(c)
    \/ \E c \in Callers : BuildFail(c)
    \/ \E c \in Callers : Store(c)

\* line 33: tokio's Mutex grants the lock in the order of the requests, so a
\* caller that waits is not passed over for ever (strong fairness: the lock
\* is free again and again); line 40: every authenticate future completes;
\* lines 44-70 have no await and run to the return
Fairness ==
    \A c \in Callers :
       /\ SF_vars(CacheHit(c) \/ CacheMiss(c))
       /\ WF_vars(AuthFail(c) \/ SeqAuthOk(c))
       /\ WF_vars(HeaderFail(c) \/ BuildFail(c) \/ Store(c))

FairSpec == Init /\ [][FairNext]_vars /\ Fairness

\* -------------------------------------------------------- abandoned calls
\* the future of refresh_client is dropped at one of its two await points:
\* its locals are dropped with it and nothing is returned
Dropped(c) ==
    /\ pc' = [pc EXCEPT ![c] = "idle"]
    /\ api_key' = [api_key EXCEPT ![c] = NoStr]
    /\ api_secret' = [api_secret EXCEPT ![c] = NoStr]
    /\ now' = [now EXCEPT ![c] = 0]
    /\ res' = [res EXCEPT ![c] = NoRes]
    /\ seen' = [seen EXCEPT ![c] = NoEntry]

\* line 33: dropped while CLIENTS.lock() is awaited: the caller leaves the
\* queue of the mutex, which it does not hold
AbandonLock(c) ==
    /\ pc[c] = "lock"
    /\ Dropped(c)
    /\ UNCHANGED <<clock, clients, lockHolder, ret, built, calls>>

\* mutant of AbandonAuth: the guard outlives the dropped future
AbandonAuthKeepLock(c) ==
    /\ pc[c] = "auth"
    /\ lockHolder = c
    /\ Dropped(c)
    /\ UNCHANGED <<clock, clients, lockHolder, ret, built, calls>>

\* lines 33-41: dropped while authenticate is awaited: the guard `clients`
\* is a local, it is dropped and the mutex is unlocked; line 62 is not
\* reached
AbandonAuth(c) ==
    /\ pc[c] = "auth"
    /\ lockHolder = c
    /\ Dropped(c)
    /\ lockHolder' = NoCaller
    /\ UNCHANGED <<clock, clients, ret, built, calls>>

CancelNext ==
    \/ FairNext
    \/ \E c \in Callers : AbandonLock(c)
    \/ \E c \in Callers : AbandonAuth(c)

\* callers may abandon at any time; the calls that are not abandoned are
\* scheduled as in FairSpec
CancelSpec == Init /\ [][CancelNext]_vars /\ Fairness

\* ---------------------------------------------------------- observations
\* steps of caller c, read off two successive states
Waiting(c) == pc[c] = "lock"
InRefresh(c) == pc[c] \in {"auth", "build"}

\* c is given the lock in this step (and serves a hit or starts a refresh)
AcquireStep(c) == pc[c] = "lock" /\ pc'[c] # "lock"
\* c is served the cached entry in this step
HitStep(c) == pc[c] = "lock" /\ pc'[c] = "idle"
\* c calls authenticate in this step
MissStep(c) == pc[c] = "lock" /\ pc'[c] = "auth"
\* c's refresh ends in this step, with a stored entry or with an error
RefreshEndStep(c) == InRefresh(c) /\ pc'[c] = "idle"
StoreStep(c) == pc[c] = "build" /\ pc'[c] = "idle" /\ ret'.value.kind = "ok"

\* the entry of key k serves a call that sampled now = t
ValidAt(map, k, t) == k \in DOMAIN map /\ t < map[k].expiration_time
\* the call returned the stored client of key k without authenticating
ServedFrom(map, k, r) == r = [value |-> Ok(map[k].client), auth_calls |-> 0]

\* the entry c found for its key when it sampled now, and what it was then
SawEntry(c) == seen[c].id # 0
SawValid(c) == SawEntry(c) /\ now[c] < seen[c].expiration_time
SawExpired(c) == SawEntry(c) /\ now[c] >= seen[c].expiration_time
\* that entry is still the entry of c's key
StillStored(c) ==
    /\ api_key[c] \in DOMAIN clients
    /\ Snapshot(clients, api_key[c]) = seen[c]

TypeOK ==
    /\ clock \in 0..MaxTime
    /\ lockHolder \in Callers \cup {NoCaller}
    /\ \A c \in Callers : pc[c] \in {"idle", "lock", "auth", "build"}

\* ------------------------------------------------------------------ claims

\* C1: no call is served the client of a cached entry at a moment when the
\* clock is at or past that entry's expiration_time.
C1_NeverServedExpired ==
    [][\A c \in Callers :
         HitStep(c) => clock < clients[api_key[c]].expiration_time]_vars

\* C2 as stated: a call made (now sampled) while the entry (C, E) of its key
\* is stored and now < E returns C itself and calls authenticate zero times,
\* whatever happens while it waits for the lock.
C2_FreshnessAsStated ==
    [][\A c \in Callers :
         (AcquireStep(c) /\ SawValid(c)) =>
            /\ HitStep(c)
            /\ ret'.auth_calls = 0
            /\ ret'.value.kind = "ok"
            /\ ret'.value.client.id = seen[c].id]_vars

\* C2 amended: the same, for the calls that find (C, E) still stored when
\* they are given the lock; the cache is left as it is.
C2_Freshness ==
    [][\A c \in Callers :
         (AcquireStep(c) /\ SawValid(c) /\ StillStored(c)) =>
            /\ HitStep(c)
            /\ ret' = [value |-> Ok(clients[api_key[c]].client), auth_calls |-> 0]
            /\ ret'.value.client.id = seen[c].id
            /\ clients' = clients]_vars

\* a second call was served the one client ever built, its entry not expired
C2_Witness ==
    /\ calls >= 2
    /\ built = 1
    /\ ret.auth_calls = 0
    /\ ret.value.kind = "ok"
    /\ KeyABC \in DOMAIN clients
    /\ ret.value.client = clients[KeyABC].client
    /\ clock < clients[KeyABC].expiration_time

\* C3 as stated: a call made at a time >= the stored expiration E of its key
\* calls authenticate exactly once and replaces the entry of the key.
C3_RefreshOnExpiryAsStated ==
    [][\A c \in Callers :
         SawExpired(c) =>
            /\ AcquireStep(c) => MissStep(c)
            /\ RefreshEndStep(c) =>
                  /\ ret'.auth_calls = 1
                  /\ api_key[c] \in DOMAIN clients'
                  /\ clients'[api_key[c]].client.id # seen[c].id]_vars

\* C3 amended: a call made at a time >= E that finds that entry still stored
\* when it is given the lock calls authenticate exactly once; it replaces
\* the entry when authentication, header encoding and client construction
\* succeed, and leaves the cache as it is when one of them fails.
C3_RefreshOnExpiry ==
    [][\A c \in Callers :
         SawExpired(c) =>
            /\ (AcquireStep(c) /\ StillStored(c)) => MissStep(c)
            /\ RefreshEndStep(c) =>
                  /\ ret'.auth_calls = 1
                  /\ ret'.value.kind = "ok" =>
                        /\ api_key[c] \in DOMAIN clients'
                        /\ clients'[api_key[c]].client = ret'.value.client
                        /\ clients'[api_key[c]].client.id # seen[c].id
                  /\ ret'.value.kind = "err" => clients' = clients]_vars

\* a refresh has replaced an entry of an earlier refresh
C3_Witness ==
    /\ ret.auth_calls = 1
    /\ ret.value.kind = "ok"
    /\ KeyABC \in DOMAIN clients
    /\ clients[KeyABC].client = ret.value.client
    /\ clients[KeyABC].client.id = 2
    /\ KeyXY \notin DOMAIN clients
C5_AuthFailureIsolated ==
    [][\A c \in Callers :
         (pc[c] = "auth" /\ pc'[c] = "idle") =>
            /\ ret' = [value |-> Err("Authentication failed"), auth_calls |-> 1]
            /\ clients' = clients]_vars

\* an authentication failed and the expired entry of an earlier refresh is
\* still stored
C5_Witness ==
    /\ ret.value = Err("Authentication failed")
    /\ KeyABC \in DOMAIN clients
    /\ clock >= clients[KeyABC].expiration_time
    /\ KeyXY \notin DOMAIN clients
    /\ calls = 2

\* C6: while a caller holds the lock (from its miss to its return), it is
\* the only caller in a refresh, no other caller is given the lock (reads
\* the cache), and only the holder's own return writes the cache.
C6_Serialized ==
    /\ [](/\ \A c, d \in Callers : (InRefresh(c) /\ InRefresh(d)) => c = d
          /\ \A c \in Callers : InRefresh(c) <=> lockHolder = c)
    /\ [][lockHolder # NoCaller =>
            /\ \A c \in Callers : c # lockHolder => ~AcquireStep(c)
            /\ clients' # clients => RefreshEndStep(lockHolder)]_vars

\* an authentication is in flight and a caller with another key waits
C6_Witness ==
    \E c, d \in Callers :
        /\ pc[c] = "auth"
        /\ Waiting(d)
        /\ api_key[d] # api_key[c]

\* C7: in sequential runs with the placeholder authentication (ttl 3600), a
\* call authenticates iff its key is missing or its time is >= the stored
\* expiration; a hit returns the identical cached client; a refresh returns
\* a new client and stores expiration = the call's time + 3600.
C7_Sequential ==
    [][\A c \in Callers :
         /\ AcquireStep(c) =>
              (MissStep(c) <=>
                 (api_key[c] \notin DOMAIN clients
                  \/ now[c] >= clients[api_key[c]].expiration_time))
         /\ HitStep(c) =>
              /\ ServedFrom(clients, api_key[c], ret')
              /\ clients' = clients
              /\ built' = built
         /\ StoreStep(c) =>
              /\ ret'.auth_calls = 1
              /\ clients'[api_key[c]].client = ret'.value.client
              /\ \A k \in DOMAIN clients : clients[k].client.id # ret'.value.client.id
              /\ clients'[api_key[c]].expiration_time = now[c] + 3600]_vars

\* the scenario's end: a first client for "ABC", a call served from the
\* cache, and at t = 4000 a second client stored with expiration 4000 + 3600
C7_Witness ==
    /\ clock = 4000
    /\ calls = 3
    /\ built = 2
    /\ DOMAIN clients = {KeyABC}
    /\ clients[KeyABC].expiration_time = 7600
    /\ clients[KeyABC].client.id = 2
    /\ ret = [value |-> Ok(clients[KeyABC].client), auth_calls |-> 1]

\* C8: when a header value cannot be encoded or the client cannot be built,
\* after authentication succeeded, the call returns the error, the cache map
\* is as it was before the call, and the key's entry serves no call made
\* from then on, so that the next call authenticates again.
C8_LateFailureIsolated ==
    [][\A c \in Callers :
         (pc[c] = "build" /\ pc'[c] = "idle") =>
            /\ ~HeadersOk(res[c].access_token, api_key[c]) =>
                  ret' = [value |-> Err("Invalid header value"), auth_calls |-> 1]
            /\ ret'.value.kind = "err" =>
                  /\ ret'.value.msg \in {"Invalid header value", "Failed to build client"}
                  /\ clients' = clients
                  /\ ~ValidAt(clients', api_key[c], clock')]_vars

\* a header value could not be encoded and the expired entry of an earlier
\* refresh is still stored
C8_Witness ==
    /\ ret.value = Err("Invalid header value")
    /\ KeyABC \in DOMAIN clients
    /\ clock >= clients[KeyABC].expiration_time
    /\ KeyXY \notin DOMAIN clients
    /\ calls = 2

\* C9: an entry is stored only by the return of a refresh, with
\* expiration_time = the now the call sampled when it was made + the ttl its
\* own authentication call returned.
C9_ExpirationIsNowPlusTtl ==
    [][/\ \A c \in Callers :
            /\ (pc[c] = "idle" /\ pc'[c] # "idle") => now'[c] = clock
            /\ (pc[c] # "idle" /\ pc'[c] # "idle") => now'[c] = now[c]
            /\ (pc[c] = "build" /\ pc'[c] = "build") => res'[c] = res[c]
       /\ \A k \in DOMAIN clients' :
            (k \notin DOMAIN clients \/ clients'[k] # clients[k]) =>
               \E c \in Callers :
                  /\ StoreStep(c)
                  /\ api_key[c] = k
                  /\ clients'[k].expiration_time = now[c] + res[c].expires_in]_vars

\* an entry stored by a call that sampled now = 0 and returned at t = 4000
C9_Witness ==
    /\ clock = 4000
    /\ built = 1
    /\ KeyABC \in DOMAIN clients
    /\ clients[KeyABC].expiration_time = 3600
    /\ ret = [value |-> Ok(clients[KeyABC].client), auth_calls |-> 1]
    /\ \E c \in Callers : Waiting(c) /\ now[c] = 4000 /\ seen[c].id = 0 /\ api_key[c] = KeyABC

\* C10: a ttl <= 0 is no error: the refresh returns the new client and
\* stores its entry, which is expired at once (expiration_time <= the call's
\* now), so that a call for the key made at that now or later authenticates
\* again.
C10_NonPositiveTtl ==
    [][\A c \in Callers :
         /\ (pc[c] = "build" /\ pc'[c] = "idle" /\ res[c].expires_in <= 0
               /\ ret'.value.kind = "err") =>
              ret'.value.msg \in {"Invalid header value", "Failed to build client"}
         /\ (StoreStep(c) /\ res[c].expires_in <= 0) =>
              /\ api_key[c] \in DOMAIN clients'
              /\ clients'[api_key[c]].client = ret'.value.client
              /\ clients'[api_key[c]].expiration_time <= now[c]
              /\ ~ValidAt(clients', api_key[c], now[c])
              /\ ~ValidAt(clients', api_key[c], clock')
         /\ (AcquireStep(c) /\ SawEntry(c) /\ StillStored(c)
               /\ seen[c].expiration_time <= now[c]) => MissStep(c)]_vars

\* an entry was stored with a ttl <= 0 at now = 0, and a later call for its
\* key, made at the same now, is authenticating again
C10_Witness ==
    \E c \in Callers :
        /\ pc[c] = "auth"
        /\ now[c] = 0
        /\ SawEntry(c)
        /\ StillStored(c)
        /\ clients[api_key[c]].expiration_time <= 0

\* a header value of the form `Bearer <token>`
HasBearerForm(v) == Len(v) >= Len(BearerPrefix) /\ SubSeq(v, 1, Len(BearerPrefix)) = BearerPrefix

\* C11: every stored client has the identifying header equal to its key and
\* an authorization value of the form `Bearer <token>`; the entry a call
\* stores for its key K carries `Bearer ` followed by the access token its
\* own authentication call returned, and the client a call with key K
\* returns (stored just now, or served from the cache) is the stored client
\* of K with those headers.
C11_HeaderCorrectness ==
    /\ [](\A k \in DOMAIN clients :
            /\ clients[k].client.x_api_key = k
            /\ HasBearerForm(clients[k].client.authorization))
    /\ [][\A c \in Callers :
            StoreStep(c) =>
               LET k == api_key[c]
               IN /\ res[c].kind = "ok"
                  /\ k \in DOMAIN clients'
                  /\ clients'[k].client.x_api_key = k
                  /\ clients'[k].client.authorization = BearerPrefix \o res[c].access_token
                  /\ ret'.value.client = clients'[k].client]_vars
    /\ [][\A c \in Callers :
            HitStep(c) =>
               /\ ret'.value.kind = "ok"
               /\ ret'.value.client = clients[api_key[c]].client
               /\ ret'.value.client.x_api_key = api_key[c]
               /\ HasBearerForm(ret'.value.client.authorization)]_vars

\* the entry of "XY" holds a client with X-Api-Key "XY" and the authorization
\* `Bearer tok1`, and a call has just been served that client from the cache
C11_Witness ==
    /\ KeyXY \in DOMAIN clients
    /\ clients[KeyXY].client.x_api_key = KeyXY
    /\ clients[KeyXY].client.authorization = BearerPrefix \o Tok1
    /\ ret = [value |-> Ok(clients[KeyXY].client), auth_calls |-> 0]

\* two calls that differ at most in their secrets: same key, same now
SameButSecret(c, d) ==
    /\ pc[c] = "lock" /\ pc[d] = "lock"
    /\ api_key[c] = api_key[d]
    /\ now[c] = now[d]
\* the call of c is served / refreshes as the call of d does
SameDecision(c, d) ==
    /\ (ENABLED CacheHit(c)) <=> (ENABLED CacheHit(d))
    /\ (ENABLED CacheMiss(c)) <=> (ENABLED CacheMiss(d))
\* the lookup of c's call: by its key and its now alone
DecidedByKeyAndTime(c) ==
    IF ValidAt(clients, api_key[c], now[c])
    THEN /\ HitStep(c)
         /\ ret' = [value |-> Ok(clients[api_key[c]].client), auth_calls |-> 0]
         /\ clients' = clients
    ELSE MissStep(c)
\* the token of c's call is one its own key and secret can be answered
AuthenticatedWithOwnSecret(c) ==
    /\ res'[c] \in AuthOutputs(api_key[c], api_secret[c])
    /\ res'[c].expires_in = PlaceholderExpiresIn =>
          res'[c].access_token =
             CLIENT_ID \o Colon \o POOL_ID \o Colon \o api_key[c] \o Colon \o api_secret[c]
\* c's call returns from a refresh of a key that had an (expired) entry
RefreshOfExpiredEnds(c) == RefreshEndStep(c) /\ api_key[c] \in DOMAIN clients

\* C12 as stated: calls that differ only in the secret take the same
\* decision; a call that finds its key's entry unexpired is served the cached
\* client without authenticating, whatever its secret; a call that finds it
\* expired authenticates with its own secret and overwrites the entry.
C12_SecretBlindAsStated ==
    /\ [](\A c, d \in Callers : SameButSecret(c, d) => SameDecision(c, d))
    /\ [][\A c \in Callers :
            /\ AcquireStep(c) => DecidedByKeyAndTime(c)
            /\ (pc[c] = "auth" /\ pc'[c] = "build") => AuthenticatedWithOwnSecret(c)
            /\ RefreshOfExpiredEnds(c) =>
                  /\ clients'[api_key[c]] # clients[api_key[c]]
                  /\ clients'[api_key[c]].client.authorization = BearerPrefix \o res[c].access_token]_vars

\* C12 amended: the same, but the entry is overwritten only by the calls
\* whose authentication, header encoding and client construction succeed;
\* the other calls leave the expired entry as it is.
C12_SecretBlind ==
    /\ [](\A c, d \in Callers : SameButSecret(c, d) => SameDecision(c, d))
    /\ [][\A c \in Callers :
            /\ AcquireStep(c) => DecidedByKeyAndTime(c)
            /\ (pc[c] = "auth" /\ pc'[c] = "build") => AuthenticatedWithOwnSecret(c)
            /\ RefreshOfExpiredEnds(c) =>
                  IF ret'.value.kind = "ok"
                  THEN /\ clients'[api_key[c]] # clients[api_key[c]]
                       /\ clients'[api_key[c]].client.authorization = BearerPrefix \o res[c].access_token
                  ELSE clients' = clients]_vars

\* the entry of "ABC" was issued for the secret "shh" and has expired; a call
\* with the secret "psst" has authenticated and holds a token issued for
\* "psst", about to overwrite the entry
C12_Witness ==
    \E c \in Callers :
       /\ pc[c] = "build"
       /\ api_key[c] = KeyABC
       /\ api_secret[c] = SecretPsst
       /\ KeyABC \in DOMAIN clients
       /\ clients[KeyABC].client.authorization =
             BearerPrefix \o authenticate(CLIENT_ID, POOL_ID, KeyABC, SecretShh).access_token
       /\ now[c] >= clients[KeyABC].expiration_time
       /\ res[c] = authenticate(CLIENT_ID, POOL_ID, KeyABC, SecretPsst)

\* the number of times the call c is in has invoked authenticate so far: the
\* one invocation is the step from "lock" to "auth"
AuthCalls(c) == IF InRefresh(c) THEN 1 ELSE 0

\* C13: one call invokes authenticate at most once: the invocation is the
\* step that follows a lookup that found no entry to serve; the call then
\* goes on to its return without a second invocation (also when the
\* authentication failed: the failure is returned at once); a call served
\* from the cache returns having invoked it zero times, every other call
\* exactly once.
C13_AtMostOneAuthentication ==
    [][\A c \in Callers :
         /\ AuthCalls(c)' > AuthCalls(c) => MissStep(c)
         /\ pc[c] = "auth" => pc'[c] \in {"auth", "build", "idle"}
         /\ pc[c] = "build" => pc'[c] \in {"build", "idle"}
         /\ HitStep(c) => (AuthCalls(c) = 0 /\ ret'.auth_calls = 0)
         /\ RefreshEndStep(c) => (AuthCalls(c) = 1 /\ ret'.auth_calls = 1)
         /\ (pc[c] = "auth" /\ pc'[c] = "idle") =>
               (ret'.value.kind = "err" /\ AuthCalls(c)' = 0)]_vars

\* a call whose one authentication failed has returned the error; no caller
\* is in a call and nothing was ever stored
C13_Witness ==
    /\ ret = [value |-> Err("Authentication failed"), auth_calls |-> 1]
    /\ \A c \in Callers : pc[c] = "idle"
    /\ lockHolder = NoCaller
    /\ clients = <<>>
    /\ calls >= 1

\* C14: no step removes a key from the cache; the entry of a key appears or
\* changes only in the step in which a refresh for that key returns Ok, and
\* it is then replaced as a whole: a client built by that call (never seen
\* before) and that call's now + ttl.
C14_KeysNeverShrink ==
    [][/\ DOMAIN clients \subseteq DOMAIN clients'
       /\ \A k \in DOMAIN clients' :
            (k \notin DOMAIN clients \/ clients'[k] # clients[k]) =>
               \E c \in Callers :
                  /\ StoreStep(c)
                  /\ api_key[c] = k
                  /\ clients'[k].client = ret'.value.client
                  /\ clients'[k].client.id = built + 1
                  /\ \A j \in DOMAIN clients : clients[j].client.id <= built
                  /\ clients'[k].expiration_time = now[c] + res[c].expires_in]_vars

\* the entry of "ABC" was overwritten by the third client built, and the
\* entry of "XY", stored in between, is still there
C14_Witness ==
    /\ DOMAIN clients = {KeyABC, KeyXY}
    /\ clients[KeyABC].client.id = 3
    /\ clients[KeyXY].client.id = 2

\* the key of the call c is in, or enters in this step
KeyOfCall(c) == IF pc[c] = "idle" THEN api_key'[c] ELSE api_key[c]
\* the entries of the keys other than k are the same before and after
OthersUnchanged(k) ==
    /\ (DOMAIN clients') \ {k} = (DOMAIN clients) \ {k}
    /\ \A j \in (DOMAIN clients) \ {k} : clients'[j] = clients[j]

\* C15: no step of a call with key K (entry, lookup, authentication, return)
\* changes the entry of a key other than K, and the step that serves a
\* cached entry leaves the whole map as it is, the expiration_time of K's
\* entry included.
C15_Frame ==
    [][\A c \in Callers :
         /\ (pc'[c] # pc[c] \/ res'[c] # res[c]) => OthersUnchanged(KeyOfCall(c))
         /\ HitStep(c) =>
               /\ clients' = clients
               /\ clients'[api_key[c]].expiration_time = clients[api_key[c]].expiration_time]_vars

\* with the entries of "ABC" and "XY" stored, a call for "ABC" has just been
\* served from the cache
C15_Witness ==
    /\ DOMAIN clients = {KeyABC, KeyXY}
    /\ built = 2
    /\ calls = 3
    /\ ret = [value |-> Ok(clients[KeyABC].client), auth_calls |-> 0]

\* a step of the call c is in
Progress(c) ==
    \/ CacheHit(c) \/ CacheMiss(c)
    \/ AuthFail(c) \/ AuthOk(c)
    \/ HeaderFail(c) \/ BuildFail(c) \/ Store(c)

\* C16: every return of refresh_client (hit, authentication failure, header
\* failure, build failure, success) leaves the lock free, and the lock is
\* held only by a caller in a refresh; so, when authentications terminate
\* and the lock is granted fairly, some call can always take a step while a
\* call is in progress (no deadlock) and every caller in a call eventually
\* returns.
C16_EveryCallerReturns ==
    /\ [](lockHolder # NoCaller => InRefresh(lockHolder))
    /\ []((\E c \in Callers : pc[c] # "idle") => \E c \in Callers : ENABLED Progress(c))
    /\ [][\A c \in Callers :
            (pc[c] # "idle" /\ pc'[c] = "idle") =>
               /\ lockHolder' = NoCaller
               /\ ret'.value.kind \in {"ok", "err"}]_vars
    /\ \A c \in Callers : (pc[c] # "idle") ~> (pc[c] = "idle")

\* all the calls of the run have returned, one of them with a client and the
\* last with an error, and the lock is free
C16_Witness ==
    /\ calls = MaxCalls
    /\ \A c \in Callers : pc[c] = "idle"
    /\ lockHolder = NoCaller
    /\ built >= 1
    /\ ret.value.kind = "err"

\* the step stores an entry for key k with a ttl below zero
StoresNegativeTtl(k) ==
    \E c \in Callers : StoreStep(c) /\ api_key[c] = k /\ res[c].expires_in < 0

\* C17: the clock never goes back, and in every step that does not store a
\* token with a negative ttl, the expiration_time of every stored key is at
\* least what it was, whatever the now of the storing caller (sampled before
\* it waited for the lock).
C17_ExpirationNeverDecreases ==
    [][/\ clock' >= clock
       /\ \A k \in DOMAIN clients :
            ~StoresNegativeTtl(k) =>
               /\ k \in DOMAIN clients'
               /\ clients'[k].expiration_time >= clients[k].expiration_time]_vars

\* the entry of "ABC" was overwritten at time 4000 with expiration 7600
\* while a caller that sampled now = 0 for the same key waits for the lock
C17_Witness ==
    /\ clock = 4000
    /\ KeyABC \in DOMAIN clients
    /\ clients[KeyABC].client.id >= 2
    /\ clients[KeyABC].expiration_time = 4000 + PlaceholderExpiresIn
    /\ \E c \in Callers : Waiting(c) /\ api_key[c] = KeyABC /\ now[c] = 0

\* c's authenticate completes in this step (at time clock)
AuthDoneStep(c) == pc[c] = "auth" /\ pc'[c] = "build"

\* C18: the now of a caller in a call is never ahead of the clock; so when
\* its authenticate completes (at time clock) with a token of ttl T, its
\* now + T is at most clock + T; from then to the insert its now and its
\* token stay as they are, and the entry it stores expires at now + T at
\* the latest: no later than the completion of the authentication + T.
C18_NotKeptLongerThanToken ==
    /\ [](\A c \in Callers : pc[c] # "idle" => now[c] <= clock)
    /\ [][\A c \in Callers :
            /\ AuthDoneStep(c) =>
                  /\ now'[c] = now[c]
                  /\ now'[c] + res'[c].expires_in <= clock + res'[c].expires_in
            /\ (pc[c] = "build" /\ pc'[c] = "build") =>
                  (now'[c] = now[c] /\ res'[c] = res[c] /\ clock' >= clock)
            /\ StoreStep(c) =>
                  /\ clients'[api_key[c]].expiration_time <= now[c] + res[c].expires_in
                  /\ clients'[api_key[c]].expiration_time <= clock + res[c].expires_in]_vars

\* at time 4000 a caller that sampled now = 0 holds a token of ttl 3600: its
\* entry will expire at 3600, before 4000 + 3600
C18_Witness ==
    \E c \in Callers :
       /\ pc[c] = "build"
       /\ now[c] = 0
       /\ clock = 4000
       /\ res[c].expires_in = PlaceholderExpiresIn
       /\ HeadersOk(res[c].access_token, api_key[c])

\* c's call ends in this step without a return: it was abandoned while it
\* waited for the lock or for authenticate
AbandonStep(c) ==
    /\ pc[c] \in {"lock", "auth"}
    /\ pc'[c] = "idle"
    /\ ret' = ret

\* C19: a call abandoned while it waits for the lock or for authenticate
\* leaves the cache map as it is and does not leave the lock held: the lock
\* is free if the call held it, and otherwise as it was; the lock is never
\* held by a caller that is not in a refresh, and every later caller that
\* is in a call gets out of it (is given the lock and completes).
C19_AbandonedCall ==
    /\ [](lockHolder # NoCaller => InRefresh(lockHolder))
    /\ [][\A c \in Callers :
            AbandonStep(c) =>
               /\ clients' = clients
               /\ built' = built
               /\ lockHolder' # c
               /\ lockHolder' = (IF lockHolder = c THEN NoCaller ELSE lockHolder)]_vars
    /\ \A c \in Callers : (pc[c] # "idle") ~> (pc[c] = "idle")

\* no call has ever returned: the earlier calls were abandoned; the map is
\* empty and the last caller was given the lock and has authenticated
C19_Witness ==
    /\ ret = NoRet
    /\ calls = MaxCalls
    /\ clients = <<>>
    /\ \E c \in Callers : pc[c] = "build" /\ lockHolder = c

====
